---- MODULE Spec2Model ----
(***************************************************************************)
(* Model of s3_concurrent_downloader.py / s3_concurrent_uploader.py:       *)
(* S3Downloader / S3Uploader, their per-item routine (_download_file /     *)
(* _upload_file), the dispatcher (download_files / upload_files) running   *)
(* on a ThreadPoolExecutor, and main()'s exit code.                        *)
(*                                                                         *)
(* The two scripts share the dispatcher line for line; `direction` selects *)
(* the parts that differ (work-list builder, timeout text, main()).        *)
(* Work items are small integers standing for S3 keys / local paths.       *)
(***************************************************************************)
EXTENDS Integers, Sequences, FiniteSets, TLC

\* ---- bounds of the model ----
MaxFiles == 2        \* longest work list
MaxWorkers == 2      \* largest --workers value

\* A path given to the uploader that is not an existing file.
MissingPath == 0

None == "None"

VARIABLES
    direction,        \* "download" | "upload": which script runs
    max_workers,      \* self.max_workers (args.workers)
    cli_ok,           \* history: outcome of _check_aws_cli, None before it
    reused,           \* history, kept in SpecRuns: the instance has served
                      \* an earlier call of the dispatcher
    pc,               \* position of the main thread
    exc,              \* exception propagating in the main thread, or None
    exit_code,        \* argument of sys.exit, -1 while the process runs
    total_files,      \* self.total_files
    downloaded_count, \* self.downloaded_count / self.uploaded_count
    failed_count,     \* self.failed_count
    lock,             \* self.lock: 0 free, else the task whose thread holds it
    file_list,        \* upload_files' argument (files_to_upload)
    s3_files,         \* s3_files / valid_files: the dispatched work list
    errors,           \* local list `errors` of the dispatcher
    results,          \* the dict returned by the dispatcher, or NoResult
    num_threads,      \* worker threads the executor has spawned
    work_queue,       \* executor's FIFO of submitted, not yet started tasks
    fut,              \* fut[i]: state of the future of the i-th submitted task
    waiter,           \* as_completed installed its waiter
    pre_finished,     \* futures already finished when as_completed began
    finished_futures, \* waiter.finished_futures, in completion order
    wpc,              \* wpc[i]: position of the thread running task i
    wtmp,             \* wtmp[i]: counter value loaded by `+= 1`
    wret,             \* wret[i]: the tuple the routine returns for task i
    wdest,            \* wdest[i]: local_file / s3_key, where task i writes
    wev,              \* history: wev[i], what the backend did for task i
    n_started,        \* history: n_started[i] calls of the routine for task i
    n_outcomes,       \* history: n_outcomes[i] outcomes produced for task i
    wincs,            \* history: wincs[i], the counters task i incremented
    progress_log,     \* history: the values of `progress` printed, in order
    done_order,       \* history: the futures completed and not yet yielded by
                      \* as_completed, in the order of their completion
    err_tasks         \* history: err_tasks[j], the task entry errors[j] is from

vars == <<direction, max_workers, cli_ok, reused, pc, exc, exit_code, total_files,
          downloaded_count, failed_count, lock, file_list, s3_files, errors,
          results, num_threads, work_queue, fut, waiter, pre_finished,
          finished_futures, wpc, wtmp, wret, wdest, wev, n_started, n_outcomes,
          wincs, progress_log, done_order, err_tasks>>

instance_vars == <<direction, max_workers, cli_ok, reused>>
counter_vars == <<total_files, downloaded_count, failed_count>>
pool_vars == <<num_threads, work_queue, fut, waiter, pre_finished,
               finished_futures>>
worker_vars == <<wpc, wtmp, wret, wdest>>
hist_vars == <<wev, n_started, n_outcomes, wincs, progress_log, done_order,
               err_tasks>>

\* A task is the i-th submitted call of the routine. Worker threads are
\* interchangeable, so a busy thread is identified with the task it runs.
Tasks == 1..MaxFiles

\* ---- work lists ----
Prefix(n) == [i \in 1..n |-> i]

\* Results of the listing (after the pattern filter): distinct keys, or the
\* same key twice (split() collapses runs of blanks inside a key).
WorkLists == {Prefix(n) : n \in 0..MaxFiles} \cup {<<1, 1>>}

\* Arguments of upload_files: as above, possibly with a path that is no file.
UploadInputs ==
    WorkLists \cup {Append(Prefix(n), MissingPath) : n \in 0..(MaxFiles - 1)}

EmptyFut == [i \in Tasks |-> "none"]
\* placeholders for "no tuple yet" / "nothing returned yet"
NoTuple == [success |-> FALSE, file |-> -1, error |-> None, raised |-> FALSE]
NoResult == [success |-> -1, failed |-> -1, errors |-> <<>>]
EmptyRes == [i \in Tasks |-> NoTuple]
ZeroCount == [i \in Tasks |-> 0]
NoEvents == [i \in Tasks |-> None]
NoIncrements == [i \in Tasks |-> <<>>]
NoDest == [i \in Tasks |-> [base |-> <<>>, name |-> -1]]

Init ==
    /\ direction \in {"download", "upload"}
    /\ max_workers \in 0..MaxWorkers
    /\ cli_ok = None
    /\ reused = FALSE
    /\ pc = IF direction = "upload" THEN "resolve" ELSE "construct"
    /\ exc = None
    /\ exit_code = -1
    /\ total_files = 0
    /\ downloaded_count = 0
    /\ failed_count = 0
    /\ lock = 0
    /\ file_list = <<>>
    /\ s3_files = <<>>
    /\ errors = <<>>
    /\ results = NoResult
    /\ num_threads = 0
    /\ work_queue = <<>>
    /\ fut = EmptyFut
    /\ waiter = FALSE
    /\ pre_finished = {}
    /\ finished_futures = <<>>
    /\ wpc = [i \in Tasks |-> "idle"]
    /\ wtmp = ZeroCount
    /\ wret = EmptyRes
    /\ wdest = NoDest
    /\ wev = NoEvents
    /\ n_started = ZeroCount
    /\ n_outcomes = ZeroCount
    /\ wincs = NoIncrements
    /\ progress_log = <<>>
    /\ done_order = <<>>
    /\ err_tasks = <<>>

\* ---- keys, paths and destinations ----

\* Item k stands for the key / local path <directory k>/<file name>, given
\* by its segments; items 1 and 2 are distinct paths with one file name, as
\* are 3 and 4, and so on.
KeyPath(k) == <<k, (k + 1) \div 2>>

\* Path(...).name: the final segment of a path
Basename(path) == path[Len(path)]

\* args.output of the downloader, args.prefix of the uploader
OutputDir == <<"downloads">>
PrefixArg == <<"uploads", "/">>

RECURSIVE RStripSlash(_)
\* s3_prefix.rstrip("/")
RStripSlash(str) ==
    IF str # <<>> /\ str[Len(str)] = "/"
    THEN RStripSlash(SubSeq(str, 1, Len(str) - 1))
    ELSE str

\* (mutant) the directories of the key are kept below the base
Destination_WholeKey(k, dir) ==
    [base |-> IF dir = "download" THEN OutputDir ELSE RStripSlash(PrefixArg),
     name |-> KeyPath(k)]

\* local_file = self.output_dir / Path(s3_key).name for a download;
\* s3_key = f"{self.s3_prefix}/{file_path.name}" for an upload, the bare
\* file name when the prefix is empty (base <<>>)
Destination(k, dir) ==
    [base |-> IF dir = "download" THEN OutputDir ELSE RStripSlash(PrefixArg),
     name |-> Basename(KeyPath(k))]

\* ---- pure helpers ----
RECURSIVE Dedup(_)
\* list(dict.fromkeys(files_to_upload)): first occurrence of each, in order
Dedup(s) ==
    IF s = <<>> THEN <<>>
    ELSE LET rest == Dedup(SubSeq(s, 1, Len(s) - 1))
             x == s[Len(s)]
         IN IF \E i \in 1..Len(rest) : rest[i] = x THEN rest
            ELSE Append(rest, x)

\* os.path.isfile(file_path)
IsFile(p) == p # MissingPath

\* (mutant) the isfile test is missing: every path is kept
ValidFiles_All(fl) == fl

\* valid_files: the paths of file_list that are existing files, in order
ValidFiles(fl) == SelectSeq(fl, IsFile)

\* `a or b` on strings
StrOr(a, b) == IF a # "" THEN a ELSE b

EmptyResult == [success |-> 0, failed |-> 0, errors |-> <<>>]

\* the dict built by the return statement at the end of the dispatcher
FinalResult ==
    [success |-> downloaded_count, failed |-> failed_count, errors |-> errors]

\* (mutant) the counters are zeroed but total_files is not set
ResetCounters_NoTotal(n) ==
    /\ total_files' = total_files
    /\ downloaded_count' = 0
    /\ failed_count' = 0

\* (mutant) the counters are initialised by the first dispatch only
ResetCounters_FirstRunOnly(n) ==
    IF total_files = 0
    THEN /\ total_files' = n
         /\ downloaded_count' = 0
         /\ failed_count' = 0
    ELSE UNCHANGED <<total_files, downloaded_count, failed_count>>

\* (mutant) total_files is set but the two counters keep their old values
ResetCounters_KeepCounts(n) ==
    /\ total_files' = n
    /\ UNCHANGED <<downloaded_count, failed_count>>

\* self.total_files = len(...); both counters = 0
ResetCounters(n) ==
    /\ total_files' = n
    /\ downloaded_count' = 0
    /\ failed_count' = 0

\* (mutant) main() that reports success whatever the dict says
ExitCodeOf_AlwaysZero(r) == 0

\* main()'s choice of the exit code from the returned dict
ExitCodeOf(r) == IF r.failed > 0 THEN 1 ELSE 0

\* ThreadPoolExecutor(max_workers=...) raises ValueError unless positive
PoolArgOk(mw) == mw > 0

\* ---- main thread ----

\* uploader main(): expand patterns, deduplicate, exit 1 when nothing is left
UploaderResolve ==
    /\ pc = "resolve"
    /\ \E raw \in UploadInputs :
         LET files_to_upload == Dedup(raw) IN
         /\ file_list' = files_to_upload
         /\ IF files_to_upload = <<>>
            THEN pc' = "exit" /\ exit_code' = 1
            ELSE pc' = "construct" /\ exit_code' = exit_code
    /\ UNCHANGED <<instance_vars, exc, counter_vars, lock, s3_files, errors,
                   results, pool_vars, worker_vars, hist_vars>>

\* (mutant) the failed check is reported but the constructor returns
CheckAwsCli_Continue ==
    /\ pc = "construct"
    /\ \E available \in BOOLEAN :
         cli_ok' = (IF available THEN "ok" ELSE "failed")
    /\ pc' = "call"
    /\ UNCHANGED <<direction, max_workers, reused, exc, exit_code,
                   counter_vars, lock,
                   file_list, s3_files, errors, results, pool_vars,
                   worker_vars, hist_vars>>

\* __init__ -> _check_aws_cli: `aws --version` exits with 0, or it exits with
\* another status, is not found or times out: then sys.exit(1)
CheckAwsCli ==
    /\ pc = "construct"
    /\ \E available \in BOOLEAN :
         IF available
         THEN cli_ok' = "ok" /\ pc' = "call" /\ exit_code' = exit_code
         ELSE cli_ok' = "failed" /\ pc' = "exit" /\ exit_code' = 1
    /\ UNCHANGED <<direction, max_workers, reused, exc, counter_vars, lock,
                   file_list, s3_files,
                   errors, results, pool_vars, worker_vars, hist_vars>>

\* (mutant) the counters are reset before the emptiness test
EmptyReturn_AfterReset ==
    /\ results' = EmptyResult
    /\ pc' = "returned"
    /\ ResetCounters(0)
    /\ errors' = errors

\* `if not s3_files: return {"success": 0, "failed": 0, "errors": []}`
EmptyReturn ==
    /\ results' = EmptyResult
    /\ pc' = "returned"
    /\ UNCHANGED <<counter_vars, errors>>

\* Body of download_files / upload_files up to `errors = []`, for work list wl.
DispatchEntry(wl) ==
    /\ s3_files' = wl
    /\ IF wl = <<>>
       THEN EmptyReturn
       ELSE /\ ResetCounters(Len(wl))
            /\ errors' = <<>>
            /\ results' = NoResult
            /\ pc' = "pool"
    /\ UNCHANGED <<instance_vars, exc, exit_code, lock, file_list, pool_vars,
                   worker_vars, hist_vars>>

\* download_files: list the bucket (a failed listing gives []), then dispatch
DownloadFiles ==
    /\ pc = "call"
    /\ direction = "download"
    /\ \E listing \in WorkLists : DispatchEntry(listing)

\* upload_files: drop the paths that are not files, then dispatch
UploadFiles ==
    /\ pc = "call"
    /\ direction = "upload"
    /\ DispatchEntry(ValidFiles(file_list))

\* with ThreadPoolExecutor(max_workers=self.max_workers) as executor
CreatePool ==
    /\ pc = "pool"
    /\ IF PoolArgOk(max_workers)
       THEN pc' = "submit" /\ exc' = exc
       ELSE pc' = "raised" /\ exc' = "ValueError"
    /\ UNCHANGED <<instance_vars, exit_code, counter_vars, lock, file_list,
                   s3_files, errors, results, pool_vars, worker_vars,
                   hist_vars>>

\* (mutant) a thread per submitted task, whatever max_workers is
SpawnThread_PerTask(n, mw) == n + 1

\* executor.submit -> _adjust_thread_count: spawn a thread while fewer than
\* max_workers exist
SpawnThread(n, mw) == IF n < mw THEN n + 1 ELSE n

NumSubmitted == Cardinality({i \in Tasks : fut[i] # "none"})

\* one executor.submit(self._download_file, s3_key) of the dict comprehension
Submit ==
    /\ pc = "submit"
    /\ LET i == NumSubmitted + 1 IN
       /\ i <= Len(s3_files)
       /\ fut' = [fut EXCEPT ![i] = "pending"]
       /\ work_queue' = Append(work_queue, i)
       /\ num_threads' = SpawnThread(num_threads, max_workers)
       /\ pc' = IF i = Len(s3_files) THEN "as_completed" ELSE "submit"
    /\ UNCHANGED <<instance_vars, exc, exit_code, counter_vars, lock,
                   file_list, s3_files, errors, results, waiter,
                   pre_finished, finished_futures, worker_vars, hist_vars>>

\* as_completed(future_to_key): note the futures already finished, install
\* the waiter that collects later completions in order
AsCompletedBegin ==
    /\ pc = "as_completed"
    /\ pre_finished' = {i \in Tasks : fut[i] = "finished"}
    /\ waiter' = TRUE
    /\ pc' = "collect"
    /\ UNCHANGED <<instance_vars, exc, exit_code, counter_vars, lock,
                   file_list, s3_files, errors, results, num_threads,
                   work_queue, fut, finished_futures, worker_vars, wev,
                   n_started, n_outcomes, wincs, progress_log, done_order,
                   err_tasks>>

\* (mutant) the `if not success` test is missing
AppendError_Always(errs, t) ==
    Append(errs, [file |-> t.file, error |-> t.error])

\* errors.append({"file": ..., "error": ...}) when the tuple says failure
AppendError(errs, t) ==
    IF t.success THEN errs
    ELSE Append(errs, [file |-> t.file, error |-> t.error])

NumYielded == Cardinality({i \in Tasks : fut[i] = "yielded"})

\* one iteration of `for future in as_completed(...)`: the futures that were
\* already finished come first, in set order, the others as they complete;
\* success, key, error_msg = future.result()
Collect ==
    /\ pc = "collect"
    /\ \E i \in Tasks :
         /\ IF pre_finished # {} THEN i \in pre_finished
            ELSE finished_futures # <<>> /\ i = Head(finished_futures)
         /\ pre_finished' = pre_finished \ {i}
         /\ finished_futures' =
              IF pre_finished # {} THEN finished_futures
              ELSE Tail(finished_futures)
         /\ fut' = [fut EXCEPT ![i] = "yielded"]
         /\ done_order' = SelectSeq(done_order, LAMBDA t : t # i)
         /\ IF wret[i].raised
            THEN \* future.result() re-raises what the routine raised
                 /\ exc' = "Exception"
                 /\ errors' = errors
                 /\ err_tasks' = err_tasks
                 /\ pc' = "shutdown"
            ELSE /\ exc' = exc
                 /\ errors' = AppendError(errors, wret[i])
                 /\ err_tasks' = IF Len(errors') > Len(errors)
                                 THEN Append(err_tasks, i) ELSE err_tasks
                 /\ pc' = IF NumYielded + 1 = Len(s3_files) THEN "shutdown"
                          ELSE "collect"
    /\ UNCHANGED <<instance_vars, exit_code, counter_vars, lock, file_list,
                   s3_files, results, num_threads, work_queue, waiter,
                   worker_vars, wev, n_started, n_outcomes, wincs,
                   progress_log>>

\* (mutant) shutdown(wait=False): the `with` block is left at once
WorkersJoined_NoWait == TRUE

\* executor.shutdown(wait=True) joins the worker threads: a thread leaves
\* only when the queue is drained and its task has returned
WorkersJoined ==
    /\ work_queue = <<>>
    /\ \A i \in Tasks : wpc[i] = "idle"

\* __exit__ of the `with` block: join the workers, then go on or re-raise
Shutdown ==
    /\ pc = "shutdown"
    /\ WorkersJoined
    /\ pc' = IF exc = None THEN "summary" ELSE "raised"
    /\ UNCHANGED <<instance_vars, exc, exit_code, counter_vars, lock,
                   file_list, s3_files, errors, results, pool_vars,
                   worker_vars, hist_vars>>

\* print the summary and return the dict
Summary ==
    /\ pc = "summary"
    /\ results' = FinalResult
    /\ pc' = "returned"
    /\ UNCHANGED <<instance_vars, exc, exit_code, counter_vars, lock,
                   file_list, s3_files, errors, pool_vars, worker_vars,
                   hist_vars>>

\* main(): sys.exit(1) if results["failed"] > 0 else sys.exit(0)
MainExit ==
    /\ pc = "returned"
    /\ exit_code' = ExitCodeOf(results)
    /\ pc' = "exit"
    /\ UNCHANGED <<instance_vars, exc, counter_vars, lock, file_list,
                   s3_files, errors, results, pool_vars, worker_vars,
                   hist_vars>>

\* (mutant) the handlers report the error and let main() end normally
MainExcept_ExitZero ==
    /\ pc = "raised"
    /\ exit_code' = 0
    /\ pc' = "exit"
    /\ UNCHANGED <<instance_vars, exc, counter_vars, lock, file_list,
                   s3_files, errors, results, pool_vars, worker_vars,
                   hist_vars>>

\* main(): except KeyboardInterrupt / except Exception: sys.exit(1)
MainExcept ==
    /\ pc = "raised"
    /\ exit_code' = 1
    /\ pc' = "exit"
    /\ UNCHANGED <<instance_vars, exc, counter_vars, lock, file_list,
                   s3_files, errors, results, pool_vars, worker_vars,
                   hist_vars>>

\* Ctrl-C: KeyboardInterrupt is raised in the main thread inside the `with`
\* block (while submitting or while waiting in as_completed) and leaves the
\* block through __exit__
Interrupt ==
    /\ pc \in {"submit", "as_completed", "collect"}
    /\ exc' = "KeyboardInterrupt"
    /\ pc' = "shutdown"
    /\ UNCHANGED <<instance_vars, exit_code, counter_vars, lock, file_list,
                   s3_files, errors, results, pool_vars, worker_vars,
                   hist_vars>>

\* A caller other than main() calls download_files / upload_files again on
\* the same instance; the previous call's locals and executor are gone.
NextCall ==
    /\ pc = "returned"
    /\ pc' = "call"
    /\ file_list' \in (IF direction = "upload" THEN UploadInputs ELSE {<<>>})
    /\ s3_files' = <<>>
    /\ errors' = <<>>
    /\ results' = NoResult
    /\ num_threads' = 0
    /\ fut' = EmptyFut
    /\ waiter' = FALSE
    /\ pre_finished' = {}
    /\ finished_futures' = <<>>
    /\ wret' = EmptyRes
    /\ wdest' = NoDest
    /\ wtmp' = ZeroCount
    /\ wev' = NoEvents
    /\ n_started' = ZeroCount
    /\ n_outcomes' = ZeroCount
    /\ wincs' = NoIncrements
    /\ progress_log' = <<>>
    /\ done_order' = <<>>
    /\ err_tasks' = <<>>
    /\ UNCHANGED <<direction, max_workers, cli_ok, exc, exit_code,
                   counter_vars, lock, work_queue, wpc>>

CallAgain == NextCall /\ UNCHANGED reused

\* the same call, with the history of the instance noted
CallAgainNoted == NextCall /\ reused' = TRUE

\* ---- the per-item routine, run by the worker threads ----

\* What subprocess.run does for one item: exit status 0, a nonzero exit
\* status, subprocess.TimeoutExpired, or another exception
BackendEvents == {"rc0", "rc1", "TimeoutExpired", "Exception"}

\* output of a failed `aws s3 cp` (after strip()), and str(e) of an exception
BackendStderr == "fatal error"
BackendStdout == ""
ExceptionText == "[Errno 2] No such file or directory: 'aws'"

\* the literal of the `except subprocess.TimeoutExpired` branch
TimeoutMsg(dir) ==
    IF dir = "download" THEN "Download timeout (1 hour exceeded)"
    ELSE "Upload timeout (5 minutes exceeded)"

\* error_msg of the branch taken for backend event ev
ErrorMsg(ev, dir) ==
    CASE ev = "rc0" -> None
      [] ev = "rc1" -> StrOr(BackendStderr, BackendStdout)
      [] ev = "TimeoutExpired" -> TimeoutMsg(dir)
      [] OTHER -> ExceptionText

\* (mutant) the exit status is not tested: whatever returns counts as success
RoutineTuple_IgnoresStatus(ev, key, dir) ==
    [success |-> (ev \in {"rc0", "rc1"}), file |-> key,
     error |-> ErrorMsg(ev, dir), raised |-> FALSE]

\* (mutant) no `except Exception` clause: the exception leaves the routine
RoutineTuple_Unhandled(ev, key, dir) ==
    [success |-> (ev = "rc0"), file |-> key, error |-> ErrorMsg(ev, dir),
     raised |-> (ev = "Exception")]

\* the tuple (success, key, error_msg) of the branch taken for event ev;
\* every event is handled inside the routine's try, so nothing is raised
RoutineTuple(ev, key, dir) ==
    [success |-> (ev = "rc0"), file |-> key, error |-> ErrorMsg(ev, dir),
     raised |-> FALSE]

\* (mutant) the counters are updated without taking the lock
LockFree_NoLock == TRUE

\* `with self.lock:` can be entered
LockFree == lock = 0

\* threads that are running a task
Busy == {i \in Tasks : wpc[i] # "idle"}

\* (mutant) a worker thread ends after its first task
IdleThread_OneShot ==
    Cardinality({i \in Tasks : n_started[i] > 0}) < num_threads

\* a spawned thread is blocked in work_queue.get()
IdleThread == Cardinality(Busy) < num_threads

\* what _worker leaves in the queue after work_queue.get()
Dequeue(q) == Tail(q)

\* _worker: work_item = work_queue.get(); work_item.run() enters the
\* routine, which computes where it writes and launches `aws s3 cp`
Start(i) ==
    /\ work_queue # <<>>
    /\ i = Head(work_queue)
    /\ IdleThread
    /\ work_queue' = Dequeue(work_queue)
    /\ fut' = [fut EXCEPT ![i] = "running"]
    /\ n_started' = [n_started EXCEPT ![i] = @ + 1]
    /\ wpc' = [wpc EXCEPT ![i] = "run"]
    /\ wdest' = [wdest EXCEPT ![i] = Destination(s3_files[i], direction)]
    /\ UNCHANGED <<instance_vars, pc, exc, exit_code, counter_vars, lock,
                   file_list, s3_files, errors, results, num_threads, waiter,
                   pre_finished, finished_futures, wtmp, wret, wev,
                   n_outcomes, wincs, progress_log, done_order, err_tasks>>

\* where the branch taken for event ev holds the lock: in the body of the
\* routine's try ("locked") or in one of its except clauses ("hlocked")
LockedIn(ev) == IF ev \in {"rc0", "rc1"} THEN "locked" ELSE "hlocked"

\* subprocess.run ends with event ev; the branch for ev enters `with
\* self.lock:` and loads its counter for `+= 1`
Transfer(i) ==
    /\ wpc[i] = "run"
    /\ LockFree
    /\ \E ev \in BackendEvents :
         LET t == RoutineTuple(ev, s3_files[i], direction) IN
         /\ wev' = [wev EXCEPT ![i] = ev]
         /\ wret' = [wret EXCEPT ![i] = t]
         /\ wtmp' = [wtmp EXCEPT ![i] =
                       IF t.success THEN downloaded_count ELSE failed_count]
         /\ wpc' = [wpc EXCEPT ![i] = LockedIn(ev)]
    /\ lock' = i
    /\ UNCHANGED <<wdest, instance_vars, pc, exc, exit_code, counter_vars, file_list,
                   s3_files, errors, results, pool_vars, n_started,
                   n_outcomes, wincs, progress_log, done_order, err_tasks>>

\* (mutant) the percentage is computed before the counter is incremented
Progress_PreIncrement(d, f, total) == <<(d + f - 1) * 100, total>>

\* progress = (downloaded_count + failed_count) / total_files * 100, kept as
\* the exact fraction <<numerator, denominator>>
Progress(d, f, total) == <<(d + f) * 100, total>>

\* `self.<counter> += 1`: store the loaded value plus one
StoreIncrement(i) ==
    /\ IF wret[i].success
       THEN downloaded_count' = wtmp[i] + 1 /\ failed_count' = failed_count
       ELSE failed_count' = wtmp[i] + 1 /\ downloaded_count' = downloaded_count
    /\ wincs' = [wincs EXCEPT ![i] =
                    Append(@, IF wret[i].success THEN "success" ELSE "failed")]

\* still inside `with self.lock:`: store the incremented counter, compute
\* and print the progress, release the lock
Record(i) ==
    /\ wpc[i] \in {"locked", "hlocked"}
    /\ StoreIncrement(i)
    /\ progress_log' =
         Append(progress_log,
                Progress(downloaded_count', failed_count', total_files))
    /\ lock' = 0
    /\ wpc' = [wpc EXCEPT ![i] = "return"]
    /\ UNCHANGED <<wdest, instance_vars, pc, exc, exit_code, total_files, file_list,
                   s3_files, errors, results, pool_vars, wtmp, wret, wev,
                   n_started, n_outcomes, done_order, err_tasks>>

\* (mutant) the waiter hands the completions over newest first
SetResult_NewestFirst(i) ==
    /\ wpc[i] = "return"
    /\ fut' = [fut EXCEPT ![i] = "finished"]
    /\ finished_futures' =
         IF waiter THEN <<i>> \o finished_futures ELSE finished_futures
    /\ n_outcomes' = [n_outcomes EXCEPT ![i] = @ + 1]
    /\ done_order' = Append(done_order, i)
    /\ wpc' = [wpc EXCEPT ![i] = "idle"]
    /\ UNCHANGED <<wdest, instance_vars, pc, exc, exit_code, counter_vars, lock,
                   file_list, s3_files, errors, results, num_threads,
                   work_queue, waiter, pre_finished, wtmp, wret, wev,
                   n_started, wincs, progress_log, err_tasks>>

\* the routine returns its tuple; work_item.run() sets the future's result
\* and the waiter of as_completed, if installed, records the completion
SetResult(i) ==
    /\ wpc[i] = "return"
    /\ fut' = [fut EXCEPT ![i] = "finished"]
    /\ finished_futures' =
         IF waiter THEN Append(finished_futures, i) ELSE finished_futures
    /\ n_outcomes' = [n_outcomes EXCEPT ![i] = @ + 1]
    /\ done_order' = Append(done_order, i)
    /\ wpc' = [wpc EXCEPT ![i] = "idle"]
    /\ UNCHANGED <<wdest, instance_vars, pc, exc, exit_code, counter_vars, lock,
                   file_list, s3_files, errors, results, num_threads,
                   work_queue, waiter, pre_finished, wtmp, wret, wev,
                   n_started, wincs, progress_log, err_tasks>>

Worker(i) == Start(i) \/ Transfer(i) \/ Record(i) \/ SetResult(i)

\* ---- the routine when a write to the console fails ----

\* str(e) of the OSError that print raises on a closed or full stdout
PrintErrorText == "[Errno 32] Broken pipe"

\* print(...) inside `with self.lock:` raises after the counter was stored.
\* The lock is released. From the body of the try the exception is caught
\* by `except Exception as e` of the same routine; from inside an except
\* clause nothing catches it and it leaves the routine.
PrintRaises(i) ==
    /\ wpc[i] \in {"locked", "hlocked"}
    /\ StoreIncrement(i)
    /\ lock' = 0
    /\ IF wpc[i] = "locked"
       THEN /\ wpc' = [wpc EXCEPT ![i] = "except"]
            /\ wret' = [wret EXCEPT ![i] =
                          [success |-> FALSE, file |-> s3_files[i],
                           error |-> PrintErrorText, raised |-> FALSE]]
       ELSE /\ wpc' = [wpc EXCEPT ![i] = "return"]
            /\ wret' = [wret EXCEPT ![i].raised = TRUE]
    /\ UNCHANGED <<wdest, instance_vars, pc, exc, exit_code, total_files, file_list,
                   s3_files, errors, results, pool_vars, wtmp, wev,
                   n_started, n_outcomes, progress_log, done_order,
                   err_tasks>>

\* `except Exception as e:` entered for the failed print: take the lock and
\* load failed_count for `+= 1`
ExceptClause(i) ==
    /\ wpc[i] = "except"
    /\ LockFree
    /\ wtmp' = [wtmp EXCEPT ![i] = failed_count]
    /\ lock' = i
    /\ wpc' = [wpc EXCEPT ![i] = "hlocked"]
    /\ UNCHANGED <<wdest, instance_vars, pc, exc, exit_code, counter_vars, file_list,
                   s3_files, errors, results, pool_vars, wret, hist_vars>>

ConsoleFault(i) == PrintRaises(i) \/ ExceptClause(i)

Next ==
    \/ UploaderResolve
    \/ CheckAwsCli
    \/ DownloadFiles
    \/ UploadFiles
    \/ CreatePool
    \/ Submit
    \/ AsCompletedBegin
    \/ Collect
    \/ Shutdown
    \/ Summary
    \/ MainExit
    \/ MainExcept
    \/ Interrupt
    \/ CallAgain
    \/ \E i \in Tasks : Worker(i)

Spec == Init /\ [][Next]_vars

\* The steps of the main thread's own code (Interrupt and CallAgain are the
\* environment's).
MainThread ==
    \/ UploaderResolve
    \/ CheckAwsCli
    \/ DownloadFiles
    \/ UploadFiles
    \/ CreatePool
    \/ Submit
    \/ AsCompletedBegin
    \/ Collect
    \/ Shutdown
    \/ Summary
    \/ MainExit
    \/ MainExcept

\* The operating system schedules the main thread and, while a worker
\* thread can run, some worker thread; subprocess.run ends at the latest
\* when its timeout of 3600 s expires.
Fairness ==
    /\ WF_vars(MainThread)
    /\ WF_vars(\E i \in Tasks : Worker(i))

FairSpec == Spec /\ Fairness

\* The program on a console whose writes can fail at any print of the
\* routine (stdout is a closed pipe, a full disk, a non-blocking terminal).
NextIO == Next \/ \E i \in Tasks : ConsoleFault(i)

SpecIO == Init /\ [][NextIO]_vars

\* The program with the reuse of the instance recorded in `reused`.
NextRuns ==
    \/ UploaderResolve
    \/ CheckAwsCli
    \/ DownloadFiles
    \/ UploadFiles
    \/ CreatePool
    \/ Submit
    \/ AsCompletedBegin
    \/ Collect
    \/ Shutdown
    \/ Summary
    \/ MainExit
    \/ MainExcept
    \/ Interrupt
    \/ CallAgainNoted
    \/ \E i \in Tasks : Worker(i)

SpecRuns == Init /\ [][NextRuns]_vars

\* ======================= properties =======================

N == Len(s3_files)
Dispatched == 1..Len(s3_files)
AllIdle == \A i \in Tasks : wpc[i] = "idle"

\* tasks whose routine was entered and has not yet handed over its result
InFlight == {i \in Tasks : fut[i] = "running"}

\* number of entries of errs naming key k
NumErrorsFor(errs, k) == Cardinality({j \in 1..Len(errs) : errs[j].file = k})

\* number of dispatched tasks for key k whose backend call did not succeed
NumFailedFor(k) ==
    Cardinality({i \in Dispatched : s3_files[i] = k /\ wev[i] # "rc0"})

\* C1: when a dispatch over a non-empty work list of N items returns, every
\* item's routine was called once and produced one outcome, no other outcome
\* exists, and the returned success + failed equals N.
C1_OutcomesAndCounts ==
    (pc = "returned" /\ s3_files # <<>>) =>
        /\ \A i \in Tasks : n_started[i] = (IF i <= N THEN 1 ELSE 0)
        /\ \A i \in Tasks : n_outcomes[i] = (IF i <= N THEN 1 ELSE 0)
        /\ results.success + results.failed = N

C1_Witness ==
    /\ pc = "returned"
    /\ N = 2
    /\ max_workers = 2
    /\ results.success = 1
    /\ results.failed = 1

\* C2: in every state at most max_workers routine calls are in flight, also
\* when all N tasks were submitted up front and N > max_workers.
C2_BoundedInFlight == Cardinality(InFlight) <= max_workers

C2_Witness ==
    /\ pc = "collect"
    /\ N = 2
    /\ max_workers = 1
    /\ Cardinality(InFlight) = 1
    /\ work_queue # <<>>

\* C3: a dispatch over an empty work list returns success 0, failed 0 and no
\* errors; it starts no worker, calls no routine, and leaves total_files and
\* both counters as they were before the call.
C3_EmptyDispatchIsInert ==
    /\ [](  (pc = "returned" /\ s3_files = <<>>)
         => /\ results = EmptyResult
            /\ num_threads = 0
            /\ work_queue = <<>>
            /\ \A i \in Tasks : fut[i] = "none" /\ n_started[i] = 0)
    /\ [][  (pc = "call" /\ pc' = "returned")
         => /\ s3_files' = <<>>
            /\ UNCHANGED <<total_files, downloaded_count, failed_count>>
            /\ UNCHANGED <<num_threads, work_queue, fut, wpc, n_started>>]_vars

C3_Witness ==
    /\ pc = "returned"
    /\ s3_files = <<>>
    /\ results = EmptyResult
    /\ total_files = 2
    /\ failed_count = 1

TimeoutReasons ==
    {"Download timeout (1 hour exceeded)", "Upload timeout (5 minutes exceeded)"}

Unexpected == {"TimeoutExpired", "Exception"}

\* C5: when the backend call of an item raises or times out, the routine
\* still returns a failure tuple for that item with a non-empty reason (one
\* that names the timeout, in the timeout case); no exception reaches the
\* dispatcher, every other item still produces its outcome, and the dispatch
\* returns with the failure in its error list.
C5_FailureIsolated ==
    /\ \A i \in Tasks :
         (wev[i] \in Unexpected /\ fut[i] \in {"finished", "yielded"}) =>
            /\ ~wret[i].raised
            /\ ~wret[i].success
            /\ wret[i].file = s3_files[i]
            /\ wret[i].error \notin {"", None}
            /\ (wev[i] = "TimeoutExpired") = (wret[i].error \in TimeoutReasons)
    /\ exc # "Exception"
    /\ (pc = "returned" /\ s3_files # <<>>) =>
         \A i \in Dispatched :
            /\ n_outcomes[i] = 1
            /\ wev[i] \in Unexpected =>
                 \E j \in 1..Len(results.errors) :
                    results.errors[j] =
                        [file |-> s3_files[i], error |-> wret[i].error]

C5_Witness ==
    /\ pc = "returned"
    /\ N = 2
    /\ wev[1] = "Exception"
    /\ wev[2] = "TimeoutExpired"
    /\ results.failed = 2

\* C6: the dispatcher builds its result, returns or raises only after every
\* submitted task has finished: then no task is queued or running, no thread
\* holds the lock, and on the normal path all N outcomes exist and the
\* returned counts are the counters' final values.
C6_FanInBeforeReport ==
    /\ (pc \in {"summary", "returned", "raised", "exit"}) =>
          /\ work_queue = <<>>
          /\ AllIdle
          /\ lock = 0
          /\ \A i \in Tasks : fut[i] \notin {"pending", "running"}
    /\ (pc \in {"summary", "returned"} /\ s3_files # <<>>) =>
          \A i \in Dispatched : fut[i] = "yielded" /\ n_outcomes[i] = 1
    /\ (pc = "returned" /\ s3_files # <<>>) =>
          /\ results.success = downloaded_count
          /\ results.failed = failed_count

C6_Witness ==
    /\ pc = "summary"
    /\ N = 2
    /\ max_workers = 2
    /\ downloaded_count + failed_count = 2

\* C7: with fair scheduling and transfer calls that end, every submitted
\* task is eventually started, also when N > max_workers, and a dispatch that
\* has created its pool eventually returns a result unless it is interrupted.
\* "Eventually started" is stated as its two halves: a pending future leaves
\* that state only by being started, and no future stays pending for ever.
C7_EveryItemRunsAndDispatchReturns ==
    /\ [][\A i \in Tasks :
             fut[i] = "pending" => fut'[i] \in {"pending", "running"}]_vars
    /\ \A i \in Tasks : []<>(fut[i] # "pending")
    /\ (pc = "submit") ~> (pc = "returned" \/ exc = "KeyboardInterrupt")

C7_Witness ==
    /\ pc = "returned"
    /\ N = 2
    /\ max_workers = 1
    /\ \A i \in Dispatched : n_started[i] = 1

\* C8: once the user has interrupted a dispatch, leaving the `with` block and
\* reaching the exit does not wait for the workers: the way out is open
\* whatever is still queued or running.
C8_InterruptDoesNotWait ==
    (pc = "shutdown" /\ exc = "KeyboardInterrupt") => ENABLED Shutdown

\* C9: at the exit the code is 1 after an exception or an interrupt, 1 when
\* the returned dict has failed > 0 or some item's backend call did not
\* succeed, and 0 when the dispatch returned with every item successful.
C9_ExitCode ==
    (pc = "exit") =>
        /\ exit_code \in {0, 1}
        /\ (exc # None) => exit_code = 1
        /\ (exc = None /\ results.failed > 0) => exit_code = 1
        /\ (exc = None /\ results # NoResult /\ \E i \in Dispatched : wev[i] # "rc0")
              => exit_code = 1
        /\ (exc = None /\ results # NoResult /\ s3_files # <<>>
               /\ \A i \in Dispatched : wev[i] = "rc0") => exit_code = 0

C9_Witness ==
    /\ pc = "exit"
    /\ exit_code = 0
    /\ N = 2
    /\ results.success = 2

\* C10: whenever the process exits after finding nothing to transfer (the
\* listing gave no key, no path was resolved, or no resolved path is a file),
\* the exit code is 1.
C10_EmptyWorkListExitsOne ==
    (pc = "exit" /\ exc = None /\ s3_files = <<>>) => exit_code = 1

\* number of dispatched items whose backend call ended with an event of evs
NumWithEvent(evs) == Cardinality({i \in Dispatched : wev[i] \in evs})

\* C11: the counts a dispatch returns are a function of the per-item backend
\* outcomes alone: success is the number of items whose call exited with
\* status 0 and failed the number of the others, for every max_workers >= 1
\* and every interleaving.
C11_CountsAreTheSplit ==
    (pc = "returned" /\ s3_files # <<>>) =>
        /\ results.success = NumWithEvent({"rc0"})
        /\ results.failed = NumWithEvent(BackendEvents \ {"rc0"})

C11_Witness ==
    /\ pc = "returned"
    /\ N = 2
    /\ max_workers = 1
    /\ wev = <<"rc0", "rc1">>
    /\ results.success = 1
    /\ results.failed = 1

\* C12: after a failed availability check the process has exited with a
\* nonzero code and nothing was dispatched: no listing result, no pool, no
\* submitted task, no routine call; and the program takes no further step.
C12_FailedCheckExitsBeforeDispatch ==
    /\ []((cli_ok = "failed") =>
             /\ pc = "exit"
             /\ exit_code > 0
             /\ s3_files = <<>>
             /\ results = NoResult
             /\ num_threads = 0
             /\ work_queue = <<>>
             /\ \A i \in Tasks : fut[i] = "none" /\ n_started[i] = 0)
    /\ [][cli_ok # "failed"]_vars

C12_Witness ==
    /\ cli_ok = "failed"
    /\ direction = "upload"
    /\ file_list # <<>>
    /\ exit_code = 1

\* item i has completed: its routine has left the critical section
Completed(i) == wpc[i] = "return" \/ fut[i] \in {"finished", "yielded"}

\* C13: in every state of a dispatch over a non-empty work list, succeeded +
\* failed is at most total, and it equals total exactly in the states where
\* every dispatched item has completed.
C13_CountersWithinTotal ==
    (s3_files # <<>>) =>
        /\ downloaded_count + failed_count <= total_files
        /\ (downloaded_count + failed_count = total_files)
              <=> (\A i \in Dispatched : Completed(i))

C13_Witness ==
    /\ N = 2
    /\ total_files = 2
    /\ downloaded_count + failed_count = 1
    /\ Completed(1)
    /\ wpc[2] = "hlocked"

\* number of entries of the error list that come from task i
NumEntriesOf(i) ==
    Cardinality({j \in 1..Len(err_tasks) : err_tasks[j] = i})

FailureCounted(i) == \E k \in 1..Len(wincs[i]) : wincs[i][k] = "failed"

\* C14: whatever path the routine takes for an item, also when a statement
\* after the counter update raises, the item's call increments exactly one
\* counter, once; and when the dispatch returns, the error list has an entry
\* from the item exactly if the failure counter is the one it incremented.
C14_ExactlyOneIncrement ==
    /\ \A i \in Tasks :
          (fut[i] \in {"finished", "yielded"}) => Len(wincs[i]) = 1
    /\ (pc = "returned" /\ s3_files # <<>>) =>
          \A i \in Dispatched :
             NumEntriesOf(i) = (IF FailureCounted(i) THEN 1 ELSE 0)

\* tasks whose thread is inside a `with self.lock:` block
InCriticalSection == {i \in Tasks : wpc[i] \in {"locked", "hlocked"}}

\* C15: at most one worker is inside the increment-and-report critical
\* section, it is the holder of the lock, and in every state of a dispatch
\* succeeded + failed is the number of items that have completed: no update
\* is lost, whatever the interleaving of up to max_workers workers.
C15_UpdatesLinearized ==
    /\ Cardinality(InCriticalSection) <= 1
    /\ \A i \in Tasks : (i \in InCriticalSection) <=> (lock = i)
    /\ (s3_files # <<>>) =>
          downloaded_count + failed_count =
              Cardinality({i \in Dispatched : Completed(i)})

C15_Witness ==
    /\ N = 2
    /\ max_workers = 2
    /\ wpc = <<"run", "locked">>
    /\ lock = 2
    /\ downloaded_count + failed_count = 0

\* comparison of two fractions <<numerator, denominator>>, denominators > 0
FracLess(a, b) == a[1] * b[2] < b[1] * a[2]
FracEq(a, b) == a[1] * b[2] = b[1] * a[2]

C17_TotalFixedAndPositive ==
    /\ []((InCriticalSection # {} \/ \E i \in Tasks : fut[i] # "none") =>
             /\ total_files >= 1
             /\ total_files = Len(s3_files))
    /\ [][(\E i \in Tasks : fut[i] \in {"pending", "running"}) =>
             total_files' = total_files]_vars

C17_Witness ==
    /\ max_workers = 1
    /\ wpc[1] = "locked"
    /\ fut[2] = "pending"
    /\ total_files = 2
    /\ downloaded_count + failed_count = 0

\* C18: when the pool cannot be created (max_workers < 1) the ValueError
\* leaves the dispatcher without a result and main() exits with code 1; the
\* failure adds nothing to failed_count or to the error list, and no task is
\* submitted and no routine called, then or later.
C18_RunLevelFailurePropagates ==
    /\ []((exc = "ValueError") =>
             /\ pc \in {"raised", "exit"}
             /\ pc = "exit" => exit_code = 1
             /\ results = NoResult
             /\ failed_count = 0
             /\ errors = <<>>
             /\ \A i \in Tasks : fut[i] = "none" /\ n_started[i] = 0)
    /\ [][(pc = "pool" /\ ~PoolArgOk(max_workers)) =>
             /\ exc' = "ValueError"
             /\ UNCHANGED <<downloaded_count, failed_count, errors>>]_vars
    /\ [][(exc = "ValueError") => UNCHANGED <<fut, n_started, wpc>>]_vars

C18_Witness ==
    /\ pc = "exit"
    /\ exc = "ValueError"
    /\ exit_code = 1
    /\ max_workers = 0
    /\ total_files = 2

\* position of task t among the completed, not yet yielded futures
DonePos(t) == CHOOSE k \in 1..Len(done_order) : done_order[k] = t

\* failed items whose future has completed and has not been yielded yet
FailedWaiting ==
    {t \in Tasks : (\E k \in 1..Len(done_order) : done_order[k] = t)
                      /\ ~wret[t].success}

\* the task whose entry a step appends to the error list
Appended == err_tasks'[Len(err_tasks')]

\* C19 as stated: the error list is in order of completion, that is, every
\* entry appended is of the failed item that completed first among those
\* not yet in the list, also when several had completed before the
\* dispatcher began to collect results.
C19_ErrorsInCompletionOrder ==
    [][(Len(err_tasks') > Len(err_tasks)) =>
          \A t \in FailedWaiting : DonePos(Appended) <= DonePos(t)]_vars

\* C19 as amended: every entry appended is of the failed item that completed
\* first among those not yet in the list, except that two items which had
\* both completed when the dispatcher began to collect results can come in
\* either order.
C19_LateErrorsInCompletionOrder ==
    [][(Len(err_tasks') > Len(err_tasks)) =>
          \A t \in FailedWaiting :
             \/ DonePos(Appended) <= DonePos(t)
             \/ {Appended, t} \subseteq pre_finished]_vars

C19_Witness ==
    /\ pc = "collect"
    /\ max_workers = 2
    /\ pre_finished = {}
    /\ err_tasks = <<2>>
    /\ done_order = <<1>>
    /\ ~wret[1].success
    /\ fut = <<"finished", "yielded">>

\* number of paths of upload_files' argument that are existing files
NumExisting ==
    Cardinality({j \in 1..Len(file_list) : file_list[j] # MissingPath})

\* what C20 says of the work list, the routine calls and the result
FilterDropsNonFiles ==
    /\ Len(s3_files) = NumExisting
    /\ \A i \in 1..Len(s3_files) : s3_files[i] # MissingPath
    /\ \A i \in Tasks : n_started[i] = (IF i <= NumExisting THEN 1 ELSE 0)
    /\ \A j \in 1..Len(results.errors) : results.errors[j].file # MissingPath
    /\ results.success + results.failed = NumExisting

\* C20 as stated: when upload_files returns, the paths that are not existing
\* files were not dispatched, not passed to the routine and not counted, and
\* total_files and success + failed equal the number of existing files.
C20_NonFilesAreNotCounted ==
    (direction = "upload" /\ pc = "returned") =>
        /\ FilterDropsNonFiles
        /\ total_files = NumExisting

\* C20 as amended: the same, with total_files equal to the number of
\* existing files whenever there is at least one.
C20_NonFilesAreNotCountedAmended ==
    (direction = "upload" /\ pc = "returned") =>
        /\ FilterDropsNonFiles
        /\ (NumExisting >= 1) => total_files = NumExisting

C20_Witness ==
    /\ direction = "upload"
    /\ pc = "returned"
    /\ file_list = <<1, MissingPath>>
    /\ s3_files = <<1>>
    /\ total_files = 1
    /\ results.success + results.failed = 1

\* C21: an instance can serve several dispatches one after another: every
\* dispatch over a non-empty work list sets total_files to the length of its
\* list and both counters to 0 before its first task is submitted, whatever
\* an earlier run left in them, and when it returns its result counts the
\* items of that run only: success + failed = N.
C21_RunsAreIndependent ==
    /\ [][(pc = "call" /\ pc' = "pool") =>
            /\ s3_files' # <<>>
            /\ total_files' = Len(s3_files')
            /\ downloaded_count' = 0
            /\ failed_count' = 0
            /\ \A i \in Tasks : fut'[i] = "none"]_vars
    /\ []((pc \in {"pool", "submit"} /\ NumSubmitted = 0) =>
             /\ total_files = N
             /\ downloaded_count = 0
             /\ failed_count = 0)
    /\ []((pc = "returned" /\ s3_files # <<>>) =>
             /\ results.success = NumWithEvent({"rc0"})
             /\ results.failed = NumWithEvent(BackendEvents \ {"rc0"})
             /\ results.success + results.failed = N
             /\ total_files = N)

C21_Witness ==
    /\ reused
    /\ pc = "returned"
    /\ max_workers = 2
    /\ N = 1
    /\ total_files = 1
    /\ results.success = 1
    /\ results.failed = 0

\* dispatched tasks whose routine was entered
Started == {i \in Dispatched : n_started[i] > 0}

\* C22: where an item is written depends on the final segment of its key
\* or path only: two dispatched tasks whose keys end in the same segment
\* write to the same destination, neither is dropped or merged for it, and
\* when the dispatch returns each has been counted as an outcome of its own.
C22_SameBasenameSameDestination ==
    /\ \A i, j \in Started :
          (Basename(KeyPath(s3_files[i])) = Basename(KeyPath(s3_files[j])))
              => wdest[i] = wdest[j]
    /\ (pc = "returned" /\ s3_files # <<>>) =>
          /\ \A i \in Dispatched : n_outcomes[i] = 1 /\ Len(wincs[i]) = 1
          /\ results.success + results.failed = N

\* two distinct keys with one file name, both transfers in flight at once
C22_Witness ==
    /\ max_workers = 2
    /\ s3_files = <<1, 2>>
    /\ KeyPath(1) # KeyPath(2)
    /\ wpc[1] = "run"
    /\ wpc[2] = "run"
    /\ wdest[1] = wdest[2]

====
